---- MODULE Spec2Model ----
(***************************************************************************)
(* A model of the chess rules engine: coordinates, pieces, the board, the  *)
(* per-kind move generators and ChessEngine::make_move.                    *)
(***************************************************************************)
EXTENDS Integers, Sequences, FiniteSets, TLC

VARIABLES board, turn, moves, taken_pieces, ret, uci

vars == <<board, turn, moves, taken_pieces, ret, uci>>

(***************************************************************************)
(* Bounds of the model.                                                    *)
(***************************************************************************)
\* longest move history explored
MaxMoves == 3
\* make_move is called with from/to among the first MaxInputs squares of the
\* board, counted file by file: a1..a8, b1..b8, ...
MaxInputs == 16
\* longest move history of a game the solver is given
MaxSolverMoves == 2
\* longest text given to the parser of positions
MaxTextLen == 2
\* number of calls made on the engine bridge before it is released
MaxUciCalls == 4
\* number of lines of a response that the model keeps
MaxOutputLines == 3
MaxDiagramLen == 2
MaxBlanks == 2
InputSquareSpan == 2

(***************************************************************************)
(* core.rs: results, rows, columns, positions                              *)
(***************************************************************************)
BoardSize == 8

Ok(v) == [ok |-> TRUE, val |-> v, kind |-> "", msg |-> ""]
Err(k, m) == [ok |-> FALSE, val |-> <<>>, kind |-> k, msg |-> m]

\* the values outside 0..7 that an offset of at most 7 squares can produce
OffBoardValues == (-7..-1) \cup (8..14)

\* format!("Invalid row: '{value}'") and format!("Invalid column: '{value}'")
InvalidRowMessage == [v \in OffBoardValues |-> "Invalid row: '" \o ToString(v) \o "'"]
InvalidColumnMessage == [v \in OffBoardValues |-> "Invalid column: '" \o ToString(v) \o "'"]

\* impl TryFrom<isize> for Row
RowTryFrom(value) ==
    IF value \in 0..7 THEN Ok(value)
    ELSE Err("InvalidMove", InvalidRowMessage[value])

\* impl TryFrom<isize> for Column
ColumnTryFrom(value) ==
    IF value \in 0..7 THEN Ok(value)
    ELSE Err("InvalidMove", InvalidColumnMessage[value])

\* Row::try_add
RowTryAdd(row, amount) == RowTryFrom(row + amount)

\* Column::try_add
ColumnTryAdd(column, amount) == ColumnTryFrom(column + amount)

Rows == 0..(BoardSize - 1)
Columns == 0..(BoardSize - 1)
Positions == [row : Rows, column : Columns]

Pos(r, c) == [row |-> r, column |-> c]

\* Position::board_position: (x, y) = (column, row)
board_position(pos) == <<pos.column, pos.row>>

\* Position::add_offset
add_offset(pos, row, column) ==
    LET r == RowTryAdd(pos.row, row)
        c == ColumnTryAdd(pos.column, column)
    IN  IF ~r.ok THEN r
        ELSE IF ~c.ok THEN c
        ELSE Ok(Pos(r.val, c.val))

(***************************************************************************)
(* core.rs: the text form of rows, columns and positions.  A text is the   *)
(* sequence of its characters, all of them ASCII, so a byte is a character *)
(* and `s.get(0..1)`, `s.get(1..2)` of a two-byte text are never None.     *)
(***************************************************************************)
RowChars == <<"1", "2", "3", "4", "5", "6", "7", "8">>
ColumnChars == <<"a", "b", "c", "d", "e", "f", "g", "h">>
UpperColumnChars == <<"A", "B", "C", "D", "E", "F", "G", "H">>

\* impl Display for Row
RowDisplay(row) == <<RowChars[row + 1]>>

\* impl Display for Column
ColumnDisplay(column) == <<ColumnChars[column + 1]>>

\* impl Display for Position: write!(f, "{}{}", self.column, self.row)
PositionDisplay(pos) == ColumnDisplay(pos.column) \o RowDisplay(pos.row)

\* char::is_whitespace on the alphabet of the texts: the space and the tab
WhiteSpace == {" ", "\t"}

RECURSIVE trim_start(_)
trim_start(s) == IF s # <<>> /\ Head(s) \in WhiteSpace THEN trim_start(Tail(s)) ELSE s

RECURSIVE trim_end(_)
trim_end(s) ==
    IF s # <<>> /\ s[Len(s)] \in WhiteSpace
    THEN trim_end(SubSeq(s, 1, Len(s) - 1))
    ELSE s

\* str::trim
trim(s) == trim_end(trim_start(s))

\* str::to_ascii_lowercase on the letters of the column alphabet
str_to_ascii_lowercase(s) ==
    [k \in 1..Len(s) |->
        IF \E c \in 1..BoardSize : UpperColumnChars[c] = s[k]
        THEN ColumnChars[CHOOSE c \in 1..BoardSize : UpperColumnChars[c] = s[k]]
        ELSE s[k]]

\* impl FromStr for Row (the message leaves out the text of s)
RowFromStr(s) ==
    IF \E r \in Rows : trim(s) = <<RowChars[r + 1]>>
    THEN Ok(CHOOSE r \in Rows : trim(s) = <<RowChars[r + 1]>>)
    ELSE Err("InvalidMove", "Invalid row")

\* impl FromStr for Column (the message leaves out the text of s)
ColumnFromStr(s) ==
    IF \E c \in Columns : str_to_ascii_lowercase(trim(s)) = <<ColumnChars[c + 1]>>
    THEN Ok(CHOOSE c \in Columns : str_to_ascii_lowercase(trim(s)) = <<ColumnChars[c + 1]>>)
    ELSE Err("InvalidMove", "Invalid column")

\* impl FromStr for Position
PositionFromStr(s) ==
    IF Len(s) # 2
    THEN Err("InvalidMove", "Invalid position format")
    ELSE IF ~ColumnFromStr(SubSeq(s, 1, 1)).ok
    THEN ColumnFromStr(SubSeq(s, 1, 1))
    ELSE IF ~RowFromStr(SubSeq(s, 2, 2)).ok
    THEN RowFromStr(SubSeq(s, 2, 2))
    ELSE Ok([row |-> RowFromStr(SubSeq(s, 2, 2)).val,
             column |-> ColumnFromStr(SubSeq(s, 1, 1)).val])

(***************************************************************************)
(* input.rs: the move typed by the user                                    *)
(***************************************************************************)
\* struct Move
Move(from, to) == [from |-> from, to |-> to]

\* str::contains(' ')
contains_space(s) == \E k \in 1..Len(s) : s[k] = " "

\* the length of the run of non-whitespace characters that s starts with
RECURSIVE token_len(_)
token_len(s) == IF s = <<>> \/ Head(s) \in WhiteSpace THEN 0 ELSE 1 + token_len(Tail(s))

\* str::split_whitespace: the maximal runs of non-whitespace characters
RECURSIVE split_whitespace(_)
split_whitespace(s) ==
    IF trim_start(s) = <<>>
    THEN <<>>
    ELSE <<SubSeq(trim_start(s), 1, token_len(trim_start(s)))>>
             \o split_whitespace(SubSeq(trim_start(s), token_len(trim_start(s)) + 1,
                                        Len(trim_start(s))))

\* char::is_digit(10)
is_digit(c) == c \in {"0", "1", "2", "3", "4", "5", "6", "7", "8", "9"}

\* the `to` of parse_input_to_move, from the parsed `from` and the second token
parse_to(from, second) ==
    IF Len(second) = 1
    THEN IF is_digit(second[1])
         THEN IF RowFromStr(second).ok
              THEN Ok(Pos(RowFromStr(second).val, from.column))
              ELSE RowFromStr(second)
         ELSE IF ColumnFromStr(second).ok
              THEN Ok(Pos(from.row, ColumnFromStr(second).val))
              ELSE ColumnFromStr(second)
    ELSE IF PositionFromStr(second).ok
         THEN PositionFromStr(second)
         ELSE Err("InvalidMove", "Invalid 'to' position")

\* parse_input_to_move after the two tokens are cut out (the messages leave
\* out the text of the token)
parse_tokens(first, second) ==
    IF ~PositionFromStr(first).ok
    THEN Err("InvalidMove", "Invalid 'from' position")
    ELSE IF ~parse_to(PositionFromStr(first).val, second).ok
    THEN parse_to(PositionFromStr(first).val, second)
    ELSE Ok(Move(PositionFromStr(first).val,
                 parse_to(PositionFromStr(first).val, second).val))

\* parse_input_to_move on the trimmed input
parse_trimmed(input) ==
    IF contains_space(input)
    THEN IF Len(split_whitespace(input)) < 1
         THEN Err("InvalidMove", "No 'from' position provided")
         ELSE IF Len(split_whitespace(input)) < 2
         THEN Err("InvalidMove", "No 'to' position provided")
         ELSE parse_tokens(split_whitespace(input)[1], split_whitespace(input)[2])
    ELSE IF Len(input) < 3
         THEN Err("InvalidMove", "Input must be at least 3 characters long")
         ELSE parse_tokens(SubSeq(input, 1, 2), SubSeq(input, 3, Len(input)))

\* parse_input_to_move
parse_input_to_move(input) == parse_trimmed(trim(input))

(***************************************************************************)
(* core.rs: colours, pieces, cells                                         *)
(***************************************************************************)
Colours == {"White", "Black"}
Kinds == {"Pawn", "Knight", "Bishop", "Rook", "Queen", "King"}

\* ChessColour::direction
direction(colour) == IF colour = "White" THEN 1 ELSE -1

\* ChessColour::flip
flip(colour) == IF colour = "White" THEN "Black" ELSE "White"

\* Option<ChessPiece>: None is the empty tuple, Some(p) is <<p>>
None == <<>>
Some(p) == <<p>>
IsSome(o) == o # <<>>
Unwrap(o) == o[1]

ChessPiece(k, c, m) == [kind |-> k, colour |-> c, moved |-> m]
Cell(p, c) == [piece |-> p, colour |-> c]

UpperChars == {"P", "N", "B", "R", "Q", "K"}

\* char::to_ascii_lowercase on the alphabet of board diagrams
to_ascii_lowercase(c) ==
    CASE c = "P" -> "p" [] c = "N" -> "n" [] c = "B" -> "b"
      [] c = "R" -> "r" [] c = "Q" -> "q" [] c = "K" -> "k"
      [] OTHER -> c

\* char::is_uppercase on the alphabet of board diagrams
is_uppercase(c) == c \in UpperChars

\* impl TryFrom<char> for ChessPiece
ChessPieceTryFrom(c) ==
    LET l == to_ascii_lowercase(c)
        colour == IF is_uppercase(c) THEN "White" ELSE "Black"
    IN  CASE l = "p" -> Ok(ChessPiece("Pawn", colour, FALSE))
          [] l = "n" -> Ok(ChessPiece("Knight", colour, FALSE))
          [] l = "b" -> Ok(ChessPiece("Bishop", colour, FALSE))
          [] l = "r" -> Ok(ChessPiece("Rook", colour, FALSE))
          [] l = "q" -> Ok(ChessPiece("Queen", colour, FALSE))
          [] l = "k" -> Ok(ChessPiece("King", colour, FALSE))
          [] OTHER -> Err("InvalidPiece", "Invalid chess piece character")

\* Cell::parse(value, pos), pos = (i, j)
CellParse(value, i, j) ==
    LET colour == IF (j + i) % 2 = 0 THEN "White" ELSE "Black"
    IN  IF value = "."
        THEN Ok(Cell(None, colour))
        ELSE LET p == ChessPieceTryFrom(value)
             IN  IF p.ok THEN Ok(Cell(Some(p.val), colour)) ELSE p

(***************************************************************************)
(* core.rs: the board                                                      *)
(***************************************************************************)
RECURSIVE Reverse(_)
Reverse(s) == IF s = <<>> THEN <<>> ELSE Append(Reverse(Tail(s)), Head(s))

\* impl FromStr for ChessBoard.  The text is given as its non-blank trimmed
\* lines, top line first, each line a sequence of characters.
ChessBoardFromStr(lines) ==
    LET rev == Reverse(lines)
        empty == [i \in Rows |-> [j \in Columns |-> Cell(None, "White")]]
        bad(i, j) == ~CellParse(rev[i + 1][j + 1], i, j).ok
    IN  IF Len(rev) > BoardSize
        THEN Err("InvalidPiece", "too many rows on chess board")
        ELSE IF \E i \in 1..Len(rev) : Len(rev[i]) > BoardSize
        THEN Err("InvalidPiece", "too many columns on chess board")
        ELSE IF \E i \in 1..Len(rev) : \E j \in 1..Len(rev[i]) : bad(i - 1, j - 1)
        THEN Err("InvalidPiece", "Invalid chess piece character")
        ELSE Ok([board |->
                    [i \in Rows |-> [j \in Columns |->
                        IF i + 1 <= Len(rev) /\ j + 1 <= Len(rev[i + 1])
                        THEN CellParse(rev[i + 1][j + 1], i, j).val
                        ELSE empty[i][j]]],
                 turn |-> "White"])

\* the diagram embedded in impl Default for ChessBoard
DefaultBoardStr ==
    << <<"r", "n", "b", "q", "k", "b", "n", "r">>,
       <<".", "p", "p", ".", ".", "p", "p", "p">>,
       <<".", ".", ".", ".", ".", ".", ".", ".">>,
       <<"p", ".", ".", "p", "p", ".", ".", ".">>,
       <<"P", ".", ".", "P", "P", ".", ".", ".">>,
       <<".", ".", ".", ".", ".", ".", ".", ".">>,
       <<".", "P", "P", ".", ".", "P", "P", "P">>,
       <<"R", "N", "B", "Q", "K", "B", "R", "N">> >>

\* impl Default for ChessBoard
ChessBoardDefault ==
    LET b == ChessBoardFromStr(DefaultBoardStr).val
    IN  [board |-> b.board, turn |-> "White"]

\* ChessBoard::get_piece_at: Option<&Cell>
get_piece_at(b, pos) ==
    LET x == pos.row
        y == pos.column
    IN  IF x < 8 /\ y < 8 THEN Some(b[x][y]) ELSE None

\* ChessPieceKind::hash_value: u8
hash_value(kind) ==
    CASE kind = "Pawn" -> 1
      [] kind = "Knight" -> 2
      [] kind = "Bishop" -> 3
      [] kind = "Rook" -> 4
      [] kind = "Queen" -> 5
      [] kind = "King" -> 6

\* ChessColour::hash_multiplier: u8
hash_multiplier(colour) == IF colour = "White" THEN 1 ELSE 0

\* ChessBoard::hash: the array `arr` of 64 bytes that is handed to xxh3_64,
\* slot i * 8 + j for the cell board[i][j]
hash_arr(b) ==
    [k \in 0..(BoardSize * BoardSize - 1) |->
        IF IsSome(b[k \div BoardSize][k % BoardSize].piece)
        THEN (hash_value(Unwrap(b[k \div BoardSize][k % BoardSize].piece).kind)
                 + 8 * hash_multiplier(b[k \div BoardSize][k % BoardSize].colour)) % 256
        ELSE 0]

(***************************************************************************)
(* engine.rs: per-kind move generators                                     *)
(***************************************************************************)
RECURSIVE Flatten(_)
Flatten(ss) == IF ss = <<>> THEN <<>> ELSE Head(ss) \o Flatten(Tail(ss))

InSeq(x, s) == \E k \in 1..Len(s) : s[k] = x

\* the body of the loop `for n in 1..8` of ChessEngine::moves_with_offset
RECURSIVE moves_with_offset_loop(_, _, _, _, _, _)
moves_with_offset_loop(b, pos, i, j, n, acc) ==
    IF n >= 8 THEN acc
    ELSE LET npos == add_offset(pos, i * n, j * n)
         IN  IF npos.ok /\ IsSome(get_piece_at(b, npos.val))
             THEN IF IsSome(Unwrap(get_piece_at(b, npos.val)).piece)
                  THEN Append(acc, npos.val)
                  ELSE moves_with_offset_loop(b, pos, i, j, n + 1, Append(acc, npos.val))
             ELSE moves_with_offset_loop(b, pos, i, j, n + 1, acc)

\* variant of moves_with_offset: a ray that does not stop at an occupied square
RECURSIVE ray_through_loop(_, _, _, _, _, _)
ray_through_loop(b, pos, i, j, n, acc) ==
    IF n >= 8 THEN acc
    ELSE LET npos == add_offset(pos, i * n, j * n)
         IN  IF npos.ok /\ IsSome(get_piece_at(b, npos.val))
             THEN ray_through_loop(b, pos, i, j, n + 1, Append(acc, npos.val))
             ELSE ray_through_loop(b, pos, i, j, n + 1, acc)

moves_with_offset_through(b, pos, i, j) == ray_through_loop(b, pos, i, j, 1, <<>>)

\* ChessEngine::moves_with_offset
moves_with_offset(b, pos, i, j) == moves_with_offset_loop(b, pos, i, j, 1, <<>>)

BishopOffsets == << <<1, 1>>, <<-1, 1>>, <<-1, -1>>, <<1, -1>> >>
RookOffsets == << <<1, 0>>, <<0, 1>>, <<-1, 0>>, <<0, -1>> >>
QueenOffsets == << <<1, 0>>, <<0, 1>>, <<-1, 0>>, <<0, -1>>,
                   <<1, 1>>, <<-1, 1>>, <<-1, -1>>, <<1, -1>> >>
KingOffsets == << <<1, 0>>, <<-1, 0>>, <<0, 1>>, <<0, -1>> >>
\* variant of KnightOffsets: the last offset is (-2, -2)
KnightOffsets_diagonal == << <<1, 2>>, <<1, -2>>, <<-1, 2>>, <<-1, -2>>,
                            <<2, 1>>, <<2, -1>>, <<-2, 1>>, <<-2, -2>> >>

KnightOffsets == << <<1, 2>>, <<1, -2>>, <<-1, 2>>, <<-1, -2>>,
                    <<2, 1>>, <<2, -1>>, <<-2, 1>>, <<-2, -1>> >>

\* ChessEngine::available_move_for_bishop
available_move_for_bishop(b, pos, piece) ==
    Flatten([k \in 1..Len(BishopOffsets) |->
        moves_with_offset(b, pos, BishopOffsets[k][1], BishopOffsets[k][2])])

\* ChessEngine::available_move_for_rook
available_move_for_rook(b, pos, piece) ==
    Flatten([k \in 1..Len(RookOffsets) |->
        moves_with_offset(b, pos, RookOffsets[k][1], RookOffsets[k][2])])

\* ChessEngine::available_move_for_queen
available_move_for_queen(b, pos, piece) ==
    Flatten([k \in 1..Len(QueenOffsets) |->
        moves_with_offset(b, pos, QueenOffsets[k][1], QueenOffsets[k][2])])

\* the Ok values of pos.add_offset over a list of offsets (flatten / flat_map)
OffsetsOnBoard(pos, offsets) ==
    Flatten([k \in 1..Len(offsets) |->
        LET r == add_offset(pos, offsets[k][1], offsets[k][2])
        IN  IF r.ok THEN <<r.val>> ELSE <<>>])

\* ChessEngine::available_move_for_king
available_move_for_king(b, pos, piece) == OffsetsOnBoard(pos, KingOffsets)

\* ChessEngine::available_move_for_knight
available_move_for_knight(b, pos, piece) == Ok(OffsetsOnBoard(pos, KnightOffsets))

\* the diagonal-capture loop `for i in [-1, 1]` of available_move_for_pawn
PawnDiagonal(b, pos, piece, i) ==
    LET diag == add_offset(pos, direction(piece.colour), i)
    IN  IF diag.ok /\ IsSome(get_piece_at(b, diag.val))
           /\ IsSome(Unwrap(get_piece_at(b, diag.val)).piece)
           /\ Unwrap(Unwrap(get_piece_at(b, diag.val)).piece).colour # piece.colour
        THEN <<diag.val>>
        ELSE <<>>

\* variant of available_move_for_pawn: the two-square advance is offered only
\* over an empty intervening square
available_move_for_pawn_unblocked(b, pos, piece) ==
    LET dir == direction(piece.colour)
        next_row == RowTryAdd(pos.row, dir)
        single == IF next_row.ok THEN <<Pos(next_row.val, pos.column)>> ELSE <<>>
        double_move_row == IF next_row.ok THEN RowTryAdd(next_row.val, dir) ELSE next_row
        diagonals == PawnDiagonal(b, pos, piece, -1) \o PawnDiagonal(b, pos, piece, 1)
    IN  IF ~piece.moved
        THEN IF ~double_move_row.ok
             THEN Err(double_move_row.kind, double_move_row.msg)
             ELSE IF IsSome(b[next_row.val][pos.column].piece)
             THEN Ok(single \o diagonals)
             ELSE Ok(single \o <<Pos(double_move_row.val, pos.column)>> \o diagonals)
        ELSE Ok(single \o diagonals)

\* ChessEngine::available_move_for_pawn
available_move_for_pawn(b, pos, piece) ==
    LET dir == direction(piece.colour)
        next_row == RowTryAdd(pos.row, dir)
        single == IF next_row.ok THEN <<Pos(next_row.val, pos.column)>> ELSE <<>>
        double_move_row == IF next_row.ok THEN RowTryAdd(next_row.val, dir) ELSE next_row
        diagonals == PawnDiagonal(b, pos, piece, -1) \o PawnDiagonal(b, pos, piece, 1)
    IN  IF ~piece.moved
        THEN IF ~double_move_row.ok
             THEN Err(double_move_row.kind, double_move_row.msg)
             ELSE Ok(single \o <<Pos(double_move_row.val, pos.column)>> \o diagonals)
        ELSE Ok(single \o diagonals)

\* the `match piece.kind` of ChessEngine::get_available_moves
raw_moves(b, pos, piece) ==
    CASE piece.kind = "Pawn" -> available_move_for_pawn(b, pos, piece)
      [] piece.kind = "Knight" -> available_move_for_knight(b, pos, piece)
      [] piece.kind = "Bishop" -> Ok(available_move_for_bishop(b, pos, piece))
      [] piece.kind = "Rook" -> Ok(available_move_for_rook(b, pos, piece))
      [] piece.kind = "Queen" -> Ok(available_move_for_queen(b, pos, piece))
      [] piece.kind = "King" -> Ok(available_move_for_king(b, pos, piece))

\* variant of occupancy_filter: keeps every cell of the board, whoever is on it
occupancy_filter_any(b, piece, m) == IsSome(get_piece_at(b, m))

\* the closure of the `.filter(...)` of ChessEngine::get_available_moves
occupancy_filter(b, piece, m) ==
    LET cell == get_piece_at(b, m)
    IN  IF IsSome(cell)
        THEN \/ ~IsSome(Unwrap(cell).piece)
             \/ Unwrap(Unwrap(cell).piece).colour # piece.colour
        ELSE FALSE

\* ChessEngine::get_available_moves
get_available_moves(b, pos) ==
    LET cell == get_piece_at(b, pos)
    IN  IF ~IsSome(cell)
        THEN Err("InvalidMove", "cell does not exist")
        ELSE IF IsSome(Unwrap(cell).piece)
        THEN LET piece == Unwrap(Unwrap(cell).piece)
                 raw == raw_moves(b, pos, piece)
                 keep(m) == occupancy_filter(b, piece, m)
             IN  IF ~raw.ok THEN raw ELSE Ok(SelectSeq(raw.val, keep))
        ELSE Ok(<<>>)

(***************************************************************************)
(* engine.rs: ChessEngine::make_move                                       *)
(***************************************************************************)
\* the struct ChessEngine
ChessEngine(b, t, ms, tp) ==
    [chess_board |-> [board |-> b, turn |-> t], moves |-> ms, taken_pieces |-> tp]

\* variant of apply_move: the side to move is not flipped
apply_move_keep_turn(g, from, to) ==
    LET b0 == g.chess_board.board
        taken_cell == b0[to.row][to.column]
        old_cell == b0[from.row][from.column]
        b1 == [b0 EXCEPT ![to.row][to.column] = Cell(old_cell.piece, taken_cell.colour)]
        b2 == [b1 EXCEPT ![from.row][from.column] = Cell(None, old_cell.colour)]
    IN  ChessEngine(b2,
                    g.chess_board.turn,
                    Append(g.moves, [from |-> from, to |-> to]),
                    IF IsSome(taken_cell.piece)
                    THEN Append(g.taken_pieces, Unwrap(taken_cell.piece))
                    ELSE g.taken_pieces)

\* variant of apply_move: the board is indexed [x][y] instead of [y][x]
apply_move_swapped_index(g, from, to) ==
    LET old_x == board_position(from)[1]
        old_y == board_position(from)[2]
        new_x == board_position(to)[1]
        new_y == board_position(to)[2]
        b0 == g.chess_board.board
        taken_cell == b0[new_x][new_y]
        old_cell == b0[old_x][old_y]
        b1 == [b0 EXCEPT ![new_x][new_y] = Cell(old_cell.piece, taken_cell.colour)]
        b2 == [b1 EXCEPT ![old_x][old_y] = Cell(None, old_cell.colour)]
    IN  ChessEngine(b2,
                    flip(g.chess_board.turn),
                    Append(g.moves, [from |-> from, to |-> to]),
                    IF IsSome(taken_cell.piece)
                    THEN Append(g.taken_pieces, Unwrap(taken_cell.piece))
                    ELSE g.taken_pieces)

\* variant of apply_move: the capturing piece is recorded instead of the taken one
apply_move_records_mover(g, from, to) ==
    LET b0 == g.chess_board.board
        taken_cell == b0[to.row][to.column]
        old_cell == b0[from.row][from.column]
        b1 == [b0 EXCEPT ![to.row][to.column] = Cell(old_cell.piece, taken_cell.colour)]
        b2 == [b1 EXCEPT ![from.row][from.column] = Cell(None, old_cell.colour)]
    IN  ChessEngine(b2,
                    flip(g.chess_board.turn),
                    Append(g.moves, [from |-> from, to |-> to]),
                    IF IsSome(taken_cell.piece)
                    THEN Append(g.taken_pieces, Unwrap(old_cell.piece))
                    ELSE g.taken_pieces)

\* variant of apply_move: the cell written at the destination keeps the colour
\* of the source cell
apply_move_carries_colour(g, from, to) ==
    LET b0 == g.chess_board.board
        taken_cell == b0[to.row][to.column]
        old_cell == b0[from.row][from.column]
        b1 == [b0 EXCEPT ![to.row][to.column] = Cell(old_cell.piece, old_cell.colour)]
        b2 == [b1 EXCEPT ![from.row][from.column] = Cell(None, old_cell.colour)]
    IN  ChessEngine(b2,
                    flip(g.chess_board.turn),
                    Append(g.moves, [from |-> from, to |-> to]),
                    IF IsSome(taken_cell.piece)
                    THEN Append(g.taken_pieces, Unwrap(taken_cell.piece))
                    ELSE g.taken_pieces)

\* variant of apply_move: the cell beside the source, in the file of the
\* destination, is emptied as well
apply_move_clears_passed(g, from, to) ==
    LET b0 == g.chess_board.board
        taken_cell == b0[to.row][to.column]
        old_cell == b0[from.row][from.column]
        passed_cell == b0[from.row][to.column]
        b1 == [b0 EXCEPT ![from.row][to.column] = Cell(None, passed_cell.colour)]
        b2 == [b1 EXCEPT ![to.row][to.column] = Cell(old_cell.piece, taken_cell.colour)]
        b3 == [b2 EXCEPT ![from.row][from.column] = Cell(None, old_cell.colour)]
    IN  ChessEngine(b3,
                    flip(g.chess_board.turn),
                    Append(g.moves, [from |-> from, to |-> to]),
                    IF IsSome(taken_cell.piece)
                    THEN Append(g.taken_pieces, Unwrap(taken_cell.piece))
                    ELSE g.taken_pieces)

\* variant of apply_move: a taken piece is overwritten without being recorded
apply_move_drops_taken(g, from, to) ==
    LET b0 == g.chess_board.board
        taken_cell == b0[to.row][to.column]
        old_cell == b0[from.row][from.column]
        b1 == [b0 EXCEPT ![to.row][to.column] = Cell(old_cell.piece, taken_cell.colour)]
        b2 == [b1 EXCEPT ![from.row][from.column] = Cell(None, old_cell.colour)]
    IN  ChessEngine(b2,
                    flip(g.chess_board.turn),
                    Append(g.moves, [from |-> from, to |-> to]),
                    g.taken_pieces)

\* variant of apply_move: the move is recorded with its squares exchanged
apply_move_records_reversed(g, from, to) ==
    LET b0 == g.chess_board.board
        taken_cell == b0[to.row][to.column]
        old_cell == b0[from.row][from.column]
        b1 == [b0 EXCEPT ![to.row][to.column] = Cell(old_cell.piece, taken_cell.colour)]
        b2 == [b1 EXCEPT ![from.row][from.column] = Cell(None, old_cell.colour)]
    IN  ChessEngine(b2,
                    flip(g.chess_board.turn),
                    Append(g.moves, [from |-> to, to |-> from]),
                    IF IsSome(taken_cell.piece)
                    THEN Append(g.taken_pieces, Unwrap(taken_cell.piece))
                    ELSE g.taken_pieces)

\* the else branch of make_move: the move is applied
apply_move(g, from, to) ==
    LET old_x == board_position(from)[1]
        old_y == board_position(from)[2]
        new_x == board_position(to)[1]
        new_y == board_position(to)[2]
        b0 == g.chess_board.board
        taken_cell == b0[new_y][new_x]
        old_cell == b0[old_y][old_x]
        b1 == [b0 EXCEPT ![new_y][new_x] = Cell(old_cell.piece, taken_cell.colour)]
        b2 == [b1 EXCEPT ![old_y][old_x] = Cell(None, old_cell.colour)]
    IN  ChessEngine(b2,
                    flip(g.chess_board.turn),
                    Append(g.moves, [from |-> from, to |-> to]),
                    IF IsSome(taken_cell.piece)
                    THEN Append(g.taken_pieces, Unwrap(taken_cell.piece))
                    ELSE g.taken_pieces)

MoveResult(okv, k, m, g) == [ok |-> okv, kind |-> k, msg |-> m, game |-> g]

\* variant of make_move: the colour of the piece at `from` is not checked
make_move_any_side(g, from, to) ==
    LET from_cell == get_piece_at(g.chess_board.board, from)
        avail == get_available_moves(g.chess_board.board, from)
    IN  IF ~IsSome(from_cell)
        THEN MoveResult(FALSE, "InvalidMove", "from position does not exist", g)
        ELSE IF ~IsSome(Unwrap(from_cell).piece)
        THEN MoveResult(FALSE, "InvalidMove", "no piece at from position", g)
        ELSE IF ~avail.ok
        THEN MoveResult(FALSE, avail.kind, avail.msg, g)
        ELSE IF ~InSeq(to, avail.val)
        THEN MoveResult(FALSE, "InvalidMove", "", g)
        ELSE MoveResult(TRUE, "", "", apply_move(g, from, to))

\* variant of make_move: the move is recorded before its destination is checked
make_move_push_first(g, from, to) ==
    LET from_cell == get_piece_at(g.chess_board.board, from)
        avail == get_available_moves(g.chess_board.board, from)
        pushed == [g EXCEPT !.moves = Append(g.moves, [from |-> from, to |-> to])]
    IN  IF ~IsSome(from_cell)
        THEN MoveResult(FALSE, "InvalidMove", "from position does not exist", g)
        ELSE IF ~IsSome(Unwrap(from_cell).piece)
        THEN MoveResult(FALSE, "InvalidMove", "no piece at from position", g)
        ELSE IF Unwrap(Unwrap(from_cell).piece).colour # g.chess_board.turn
        THEN MoveResult(FALSE, "InvalidMove", "cannot move opponent's piece", g)
        ELSE IF ~avail.ok
        THEN MoveResult(FALSE, avail.kind, avail.msg, g)
        ELSE IF ~InSeq(to, avail.val)
        THEN MoveResult(FALSE, "InvalidMove", "", pushed)
        ELSE MoveResult(TRUE, "", "", apply_move(g, from, to))

\* ChessEngine::make_move: the result and the engine after the call
make_move(g, from, to) ==
    LET from_cell == get_piece_at(g.chess_board.board, from)
        avail == get_available_moves(g.chess_board.board, from)
    IN  IF ~IsSome(from_cell)
        THEN MoveResult(FALSE, "InvalidMove", "from position does not exist", g)
        ELSE IF ~IsSome(Unwrap(from_cell).piece)
        THEN MoveResult(FALSE, "InvalidMove", "no piece at from position", g)
        ELSE IF Unwrap(Unwrap(from_cell).piece).colour # g.chess_board.turn
        THEN MoveResult(FALSE, "InvalidMove", "cannot move opponent's piece", g)
        ELSE IF ~avail.ok
        THEN MoveResult(FALSE, avail.kind, avail.msg, g)
        ELSE IF ~InSeq(to, avail.val)
        THEN MoveResult(FALSE, "InvalidMove", "", g)
        ELSE MoveResult(TRUE, "", "", apply_move(g, from, to))

(***************************************************************************)
(* game.rs: ChessGame, the game the solver and main.rs work on.  It wraps  *)
(* the rules engine: the same move generator and the same make_move.       *)
(***************************************************************************)
game_get_board(game) == game.chess_board

game_get_available_moves(game, position) ==
    get_available_moves(game.chess_board.board, position)

game_make_move(game, mv) == make_move(game, mv.from, mv.to)

(***************************************************************************)
(* solver/mod.rs                                                           *)
(***************************************************************************)
\* ChessPieceKind::value
value(kind) ==
    CASE kind = "Pawn" -> 1
      [] kind = "Knight" -> 3
      [] kind = "Bishop" -> 3
      [] kind = "Rook" -> 5
      [] kind = "Queen" -> 9
      [] kind = "King" -> 200

\* the positions in the order board.iter().enumerate() visits them: row by
\* row, and in a row column by column
RowMajor == [k \in 1..(BoardSize * BoardSize) |->
                Pos((k - 1) \div BoardSize, (k - 1) % BoardSize)]

\* ChessBoard::pieces: the occupied cells with their positions
pieces(b) ==
    LET occupied(p) == IsSome(b.board[p.row][p.column].piece)
        ps == SelectSeq(RowMajor, occupied)
    IN  [k \in 1..Len(ps) |-> [position |-> ps[k], cell |-> b.board[ps[k].row][ps[k].column]]]

RECURSIVE score_loop(_, _, _, _, _)
\* the loop of score_board from the k-th piece on, with its two accumulators
score_loop(ps, k, self_colour, our_value, their_value) ==
    IF k > Len(ps) THEN our_value - their_value
    ELSE IF Unwrap(ps[k].cell.piece).colour = self_colour
    THEN score_loop(ps, k + 1, self_colour,
                    our_value + value(Unwrap(ps[k].cell.piece).kind), their_value)
    ELSE score_loop(ps, k + 1, self_colour,
                    our_value, their_value + value(Unwrap(ps[k].cell.piece).kind))

\* score_board
score_board(b, self_colour) == score_loop(pieces(b), 1, self_colour, 0, 0)

DepthLimit == 10
TimeLimitSecs == 5

\* struct RecursionContext; `elapsed` is what start_time.elapsed().as_secs()
\* reads when should_recurse is called
RecursionContext(depth, elapsed) == [depth |-> depth, elapsed |-> elapsed]

\* variant of should_recurse: the budget ends one second early
should_recurse_early(context) ==
    context.depth < DepthLimit /\ context.elapsed < TimeLimitSecs

\* RecursionContext::should_recurse
should_recurse(context) ==
    context.depth < DepthLimit /\ context.elapsed <= TimeLimitSecs

\* struct MoveState
MoveState(mv, score, game) == [move_ |-> mv, score |-> score, game |-> game]

\* the filter_map of best_move_from_position: the pieces of self_colour
movable_pieces(game, self_colour) ==
    LET own(p) == Unwrap(p.cell.piece).colour = self_colour
    IN  SelectSeq(pieces(game_get_board(game)), own)

\* variant of try_move: the recorded move has from and to exchanged
try_move_reversed(game, self_colour, position, to_pos) ==
    LET mv == [from |-> position, to |-> to_pos]
        r == game_make_move(game, mv)
    IN  IF r.ok
        THEN << MoveState([from |-> to_pos, to |-> position],
                          score_board(game_get_board(r.game), self_colour), r.game) >>
        ELSE <<>>

\* the body of `for to_pos in moves`: the move is tried on a clone
try_move(game, self_colour, position, to_pos) ==
    LET mv == [from |-> position, to |-> to_pos]
        r == game_make_move(game, mv)
    IN  IF r.ok
        THEN << MoveState(mv, score_board(game_get_board(r.game), self_colour), r.game) >>
        ELSE <<>>

\* the body of `for (position, piece) in movable_pieces`
moves_of_piece(game, self_colour, position) ==
    LET ms == game_get_available_moves(game, position)
    IN  IF ms.ok
        THEN Flatten([k \in 1..Len(ms.val) |-> try_move(game, self_colour, position, ms.val[k])])
        ELSE <<>>

\* the two loops of best_move_from_position
move_options(game, self_colour) ==
    LET mp == movable_pieces(game, self_colour)
    IN  Flatten([k \in 1..Len(mp) |-> moves_of_piece(game, self_colour, mp[k].position)])

Max(S) == CHOOSE m \in S : \A n \in S : n <= m

RECURSIVE sort_loop(_, _)
\* the options of the highest score of `scores`, in the order they have in
\* `options`, followed by the options of the lower scores
sort_loop(options, scores) ==
    IF scores = {} THEN <<>>
    ELSE LET has_max(o) == o.score = Max(scores)
         IN  SelectSeq(options, has_max) \o sort_loop(options, scores \ {Max(scores)})

\* variant of sort_by_score_descending: the scores ascend
sort_by_score_ascending(options) ==
    Reverse(sort_loop(options, {options[k].score : k \in 1..Len(options)}))

\* Vec::sort_by(|a, b| b.score.cmp(&a.score)): a stable sort, scores
\* descending, options of equal score keep their order
sort_by_score_descending(options) ==
    sort_loop(options, {options[k].score : k \in 1..Len(options)})

\* Vec::pop: the last element, if any
pop(v) == IF v = <<>> THEN None ELSE Some(v[Len(v)])

\* `.map(|m| (m.move_, m.score))` on the popped option
move_and_score(popped) ==
    IF IsSome(popped)
    THEN Some([move_ |-> Unwrap(popped).move_, score |-> Unwrap(popped).score])
    ELSE None

\* best_move_from_position: Option<(Move, BoardScore)>
best_move_from_position(game, self_colour, context) ==
    IF ~should_recurse(context)
    THEN None
    ELSE move_and_score(pop(sort_by_score_descending(move_options(game, self_colour))))

\* the `if let Some((mv, _score)) = best_move` of solve_next_move
result_of(best_move) ==
    IF IsSome(best_move)
    THEN [ok |-> TRUE, val |-> Some(Unwrap(best_move).move_), kind |-> "", msg |-> ""]
    ELSE [ok |-> FALSE, val |-> None, kind |-> "SolverError", msg |-> "No valid moves found"]

\* solve_next_move, with the clock reading of the one should_recurse call
solve_next_move(game, elapsed) ==
    result_of(best_move_from_position(game, game_get_board(game).turn,
                                      RecursionContext(0, elapsed)))

(***************************************************************************)
(* uci.rs: the bridge to the engine process.  `stdin` and `stdout` are the *)
(* two pipes of the child, each a sequence of whole lines without their    *)
(* newline; `pc` is where the thread that owns the bridge stands.          *)
(***************************************************************************)
\* no UciEngine has been constructed
NoBridge ==
    [pc |-> "absent", op |-> "", engine |-> "none", stdin |-> <<>>, stdout |-> <<>>,
     line |-> "", output |-> <<>>, result |-> "", best |-> None, calls |-> 0]

BestmoveLine == "bestmove e2e4 ponder e7e5"

\* the first token behind the prefix "bestmove " of a line, if the line has
\* that prefix
bestmove_token(line) == IF line = BestmoveLine THEN Some("e2e4") ELSE None

\* what the engine process writes when it reads a command, and the state it
\* goes to
engine_reply(cmd) ==
    CASE cmd = "uci" -> [lines |-> <<"id name Stockfish", "uciok">>, engine |-> "idle"]
      [] cmd = "isready" -> [lines |-> <<"readyok">>, engine |-> "idle"]
      [] cmd = "go movetime 1000" -> [lines |-> <<>>, engine |-> "thinking"]
      [] cmd = "quit" -> [lines |-> <<>>, engine |-> "exited"]
      [] OTHER -> [lines |-> <<>>, engine |-> "idle"]

\* UciEngine::command_without_response: the line is written to the stdin pipe
command_without_response(u, text) == [u EXCEPT !.stdin = Append(u.stdin, text)]

\* UciEngine::command up to the first read_line: the command is sent, the
\* thread has slept and `output` is the empty vector
command(u, text) ==
    [command_without_response(u, text) EXCEPT !.pc = "read_line", !.output = <<>>,
                                                  !.line = ""]

\* UciEngine::read_line: the next line of the pipe, or the empty string at
\* end of stream; None while the pipe is empty and the child has it open
read_line(u) ==
    IF u.stdout # <<>> THEN Some(Head(u.stdout))
    ELSE IF u.engine = "exited" THEN Some("")
    ELSE None

\* output.push(v.to_string()); lines behind the MaxOutputLines-th are not kept
push(output, v) == IF Len(output) < MaxOutputLines THEN Append(output, v) ELSE output

\* the lines of UciEngine::best_move behind its command: `res` is the lines
\* of `output` joined by newlines, so its prefix is the prefix of the first
best_move_result(output) ==
    IF output # <<>> /\ IsSome(bestmove_token(output[1]))
    THEN [result |-> "Ok", best |-> bestmove_token(output[1])]
    ELSE [result |-> "Err", best |-> None]

\* the return of UciEngine::command to the call that made it
command_returns(u) ==
    CASE u.op = "best_move" ->
            [u EXCEPT !.pc = "idle", !.result = best_move_result(u.output).result,
                      !.best = best_move_result(u.output).best]
      [] u.op = "drop" -> [u EXCEPT !.pc = "dropped", !.result = "Ok"]
      [] OTHER -> [u EXCEPT !.pc = "idle", !.result = "Ok"]

\* the `match line.trim()` of UciEngine::command; the lines of the engine
\* carry no blanks at their ends
match_line(u) ==
    IF u.line = "readyok" \/ u.line = "uciok"
    THEN command_returns(u)
    ELSE [u EXCEPT !.output = push(u.output, u.line), !.pc = "read_line"]

(***************************************************************************)
(* The state machine: a ChessEngine and the result of the last call        *)
(***************************************************************************)
Engine == ChessEngine(board, turn, moves, taken_pieces)

\* `arg` and `val` hold the input and the returned value of the calls that
\* the properties need them of, each as an Option
NoCall == [op |-> "none", ok |-> TRUE, status |-> "", kind |-> "", msg |-> "",
           arg |-> None, val |-> None]

\* #[derive(Default)] for ChessEngine
Init ==
    /\ board = ChessBoardDefault.board
    /\ turn = ChessBoardDefault.turn
    /\ moves = <<>>
    /\ taken_pieces = <<>>
    /\ ret = NoCall
    /\ uci = NoBridge

InputPositions == {p \in Positions : p.column * BoardSize + p.row < MaxInputs}

\* a call of make_move(from, to)
MakeMove(from, to) ==
    /\ Len(moves) < MaxMoves
    /\ \E r \in {make_move(Engine, from, to)} :
           /\ board' = r.game.chess_board.board
           /\ turn' = r.game.chess_board.turn
           /\ moves' = r.game.moves
           /\ taken_pieces' = r.game.taken_pieces
           /\ ret' = [op |-> "make_move", ok |-> r.ok,
                      status |-> IF r.ok THEN "Ongoing" ELSE "",
                      kind |-> r.kind, msg |-> r.msg, arg |-> None, val |-> None]
    /\ UNCHANGED uci

Next == \E from \in InputPositions, to \in InputPositions : MakeMove(from, to)

Spec == Init /\ [][Next]_vars

(***************************************************************************)
(* The solver applied to games: solve_next_move reads the game and the     *)
(* clock and changes neither, main.rs then plays the returned move with    *)
(* make_move.                                                              *)
(***************************************************************************)
\* the readings of start_time.elapsed().as_secs() at the one budget check
ElapsedSecs == {0, TimeLimitSecs, TimeLimitSecs + 1}

\* a White king alone
LoneKingStr == << <<"K">> >>

\* a White pawn alone on a7
LonePawnStr == << <<"P">>, <<".">>, <<".">>, <<".">>, <<".">>, <<".">>, <<".">> >>

\* a White rook on a1 that can take a pawn on a2 or a queen on b1
RookChoiceStr == << <<"p", "k">>, <<"R", "q">> >>

\* the boards the solver is given: the default board and three boards late
\* in a game
SolverBoards ==
    {ChessBoardDefault.board} \cup
    {ChessBoardFromStr(d).val.board : d \in {LoneKingStr, LonePawnStr, RookChoiceStr}}

SolverInit ==
    /\ board \in SolverBoards
    /\ turn \in (IF board = ChessBoardDefault.board THEN {ChessBoardDefault.turn} ELSE Colours)
    /\ moves = <<>>
    /\ taken_pieces = <<>>
    /\ ret = NoCall
    /\ uci = NoBridge

\* a call of solve_next_move(&game) while the clock reads `elapsed`
SolveNextMove(elapsed) ==
    /\ \E r \in {solve_next_move(Engine, elapsed)} :
           ret' = [op |-> "solve_next_move", ok |-> r.ok, status |-> "",
                   kind |-> r.kind, msg |-> r.msg, arg |-> Some(elapsed), val |-> r.val]
    /\ UNCHANGED <<board, turn, moves, taken_pieces, uci>>

SolverNext ==
    \/ \E from \in InputPositions, to \in InputPositions :
          Len(moves) < MaxSolverMoves /\ MakeMove(from, to)
    \/ \E elapsed \in ElapsedSecs : SolveNextMove(elapsed)

SolverSpec == SolverInit /\ [][SolverNext]_vars

(***************************************************************************)
(* Position texts: a text is parsed with Position::from_str, and a parsed  *)
(* position is formatted with its Display.                                 *)
(***************************************************************************)
\* the characters of the input texts: the two column alphabets, the row
\* alphabet, a blank, and a letter and two digits outside the alphabets
TextChars ==
    {ColumnChars[k] : k \in 1..BoardSize} \cup {UpperColumnChars[k] : k \in 1..BoardSize}
        \cup {RowChars[k] : k \in 1..BoardSize} \cup {" ", "i", "9", "0"}

Texts == UNION {[1..n -> TextChars] : n \in 1..MaxTextLen}

\* the text to parse is the argument of the call to come
ParseInit ==
    /\ board = ChessBoardDefault.board
    /\ turn = ChessBoardDefault.turn
    /\ moves = <<>>
    /\ taken_pieces = <<>>
    /\ ret \in {[NoCall EXCEPT !.arg = Some(text)] : text \in Texts}
    /\ uci = NoBridge

\* a call of Position::from_str(text)
PositionFromStrCall ==
    /\ ret.op = "none"
    /\ \E r \in {PositionFromStr(ret.arg[1])} :
           ret' = [op |-> "from_str", ok |-> r.ok, status |-> "", kind |-> r.kind,
                   msg |-> r.msg, arg |-> ret.arg,
                   val |-> IF r.ok THEN Some(r.val) ELSE None]
    /\ UNCHANGED <<board, turn, moves, taken_pieces, uci>>

\* a call of to_string() on the position that from_str returned
PositionToStringCall ==
    /\ ret.op = "from_str" /\ ret.ok
    /\ ret' = [op |-> "to_string", ok |-> TRUE, status |-> "", kind |-> "",
               msg |-> "", arg |-> ret.val, val |-> Some(PositionDisplay(ret.val[1]))]
    /\ UNCHANGED <<board, turn, moves, taken_pieces, uci>>

ParseNext == PositionFromStrCall \/ PositionToStringCall

ParseSpec == ParseInit /\ [][ParseNext]_vars

(***************************************************************************)
(* The input parser applied to typed lines: a line is made of a first      *)
(* token, blanks and a second token, with blanks around them.              *)
(***************************************************************************)
Blanks(n) == UNION {[1..k -> WhiteSpace] : k \in 0..n}

InputSquares == {p \in Positions : p.row < InputSquareSpan /\ p.column < InputSquareSpan}

FirstTokens ==
    {PositionDisplay(p) : p \in InputSquares}
        \cup {<<UpperColumnChars[p.column + 1]>> \o RowDisplay(p.row) : p \in InputSquares}
        \cup {<<"i", "9">>, <<"a">>}

SecondTokens ==
    {PositionDisplay(p) : p \in InputSquares}
        \cup {RowDisplay(p.row) : p \in InputSquares}
        \cup {ColumnDisplay(p.column) : p \in InputSquares}
        \cup {<<"9">>, <<"i">>, <<"a", "9">>, <<>>}

InputTexts ==
    {lead \o first \o sep \o second \o trail :
        lead \in Blanks(MaxBlanks), first \in FirstTokens, sep \in Blanks(MaxBlanks),
        second \in SecondTokens, trail \in Blanks(1)}

\* the line to parse is the argument of the call to come
InputInit ==
    /\ board = ChessBoardDefault.board
    /\ turn = ChessBoardDefault.turn
    /\ moves = <<>>
    /\ taken_pieces = <<>>
    /\ ret \in {[NoCall EXCEPT !.arg = Some(text)] : text \in InputTexts}
    /\ uci = NoBridge

\* a call of parse_input_to_move(input)
ParseInputToMove ==
    /\ ret.op = "none"
    /\ \E r \in {parse_input_to_move(ret.arg[1])} :
           ret' = [op |-> "parse_input_to_move", ok |-> r.ok, status |-> "",
                   kind |-> r.kind, msg |-> r.msg, arg |-> ret.arg,
                   val |-> IF r.ok THEN Some(r.val) ELSE None]
    /\ UNCHANGED <<board, turn, moves, taken_pieces, uci>>

InputNext == ParseInputToMove

InputSpec == InputInit /\ [][InputNext]_vars

(***************************************************************************)
(* The board hash applied to boards: a board is parsed from a diagram, its *)
(* hash array is taken, and another board is parsed.                       *)
(***************************************************************************)
DiagramChars == {".", "p", "P", "N"}

\* a diagram of one line: the cells of rank 1 from file a on
Diagrams == UNION {[1..n -> DiagramChars] : n \in 1..MaxDiagramLen}

HashInit ==
    /\ board \in {ChessBoardFromStr(<<line>>).val.board : line \in Diagrams}
    /\ turn = "White"
    /\ moves = <<>>
    /\ taken_pieces = <<>>
    /\ ret = NoCall
    /\ uci = NoBridge

\* ChessBoard::from_str(line): the board in hand is replaced by the parsed one
ChessBoardFromStrCall(line) ==
    /\ \E r \in {ChessBoardFromStr(<<line>>)} :
           /\ r.ok
           /\ board' = r.val.board
           /\ turn' = r.val.turn
    /\ UNCHANGED <<moves, taken_pieces, ret, uci>>

\* board.hash(): the board hashed and its array are kept
HashCall ==
    /\ ret' = [op |-> "hash", ok |-> TRUE, status |-> "", kind |-> "", msg |-> "",
               arg |-> Some(board), val |-> Some(hash_arr(board))]
    /\ UNCHANGED <<board, turn, moves, taken_pieces, uci>>

HashNext == HashCall \/ \E line \in Diagrams : ChessBoardFromStrCall(line)

HashSpec == HashInit /\ [][HashNext]_vars

(***************************************************************************)
(* The bridge and the engine process.  The thread of the bridge and the    *)
(* process of the engine run side by side.                                 *)
(***************************************************************************)
UciInit ==
    /\ board = ChessBoardDefault.board
    /\ turn = ChessBoardDefault.turn
    /\ moves = <<>>
    /\ taken_pieces = <<>>
    /\ ret = NoCall
    /\ uci = NoBridge

Called(u, op) == [u EXCEPT !.op = op, !.calls = u.calls + 1, !.result = "", !.best = None]

\* UciEngine::new: the child is spawned and `uci` is sent
UciNew ==
    /\ uci.pc = "absent"
    /\ uci' = command(Called([uci EXCEPT !.engine = "idle"], "new"), "uci")
    /\ UNCHANGED <<board, turn, moves, taken_pieces, ret>>

\* UciEngine::set_option, position and new_game: a line is sent and no
\* response is read
SendOnly(op, line) ==
    /\ uci.pc = "idle"
    /\ uci.calls < MaxUciCalls
    /\ uci' = [command_without_response(Called(uci, op), line) EXCEPT !.result = "Ok"]
    /\ UNCHANGED <<board, turn, moves, taken_pieces, ret>>

SetOption == SendOnly("set_option", "setoption name Skill Level value 1")
Position == SendOnly("position", "position fen")
NewGame == SendOnly("new_game", "ucinewgame")

\* UciEngine::is_ready up to the first read_line
IsReady ==
    /\ uci.pc = "idle"
    /\ uci.calls < MaxUciCalls
    /\ uci' = command(Called(uci, "is_ready"), "isready")
    /\ UNCHANGED <<board, turn, moves, taken_pieces, ret>>

\* UciEngine::best_move up to the first read_line
BestMove ==
    /\ uci.pc = "idle"
    /\ uci.calls < MaxUciCalls
    /\ uci' = command(Called(uci, "best_move"), "go movetime 1000")
    /\ UNCHANGED <<board, turn, moves, taken_pieces, ret>>

\* Drop for UciEngine up to the first read_line
Drop ==
    /\ uci.pc = "idle"
    /\ uci' = command(Called(uci, "drop"), "quit")
    /\ UNCHANGED <<board, turn, moves, taken_pieces, ret>>

\* one call of read_line in the loop of UciEngine::command; the read blocks
\* while the pipe is empty and open
ReadLine ==
    /\ uci.pc = "read_line"
    /\ IsSome(read_line(uci))
    /\ uci' = [uci EXCEPT !.line = Unwrap(read_line(uci)), !.pc = "match",
                           !.stdout = IF uci.stdout # <<>> THEN Tail(uci.stdout) ELSE <<>>]
    /\ UNCHANGED <<board, turn, moves, taken_pieces, ret>>

\* the match on the line read, and the return of the call when it breaks
MatchLine ==
    /\ uci.pc = "match"
    /\ uci' = match_line(uci)
    /\ UNCHANGED <<board, turn, moves, taken_pieces, ret>>

\* the engine process reads one command
EngineRead ==
    /\ uci.engine = "idle"
    /\ uci.stdin # <<>>
    /\ uci' = [uci EXCEPT !.stdin = Tail(uci.stdin),
                           !.stdout = uci.stdout \o engine_reply(Head(uci.stdin)).lines,
                           !.engine = engine_reply(Head(uci.stdin)).engine]
    /\ UNCHANGED <<board, turn, moves, taken_pieces, ret>>

\* the engine process reports on its search
EngineInfo ==
    /\ uci.engine = "thinking"
    /\ uci' = [uci EXCEPT !.stdout = Append(uci.stdout, "info depth 1"),
                           !.engine = "decided"]
    /\ UNCHANGED <<board, turn, moves, taken_pieces, ret>>

\* the engine process ends its search with the bestmove line
EngineBestmove ==
    /\ uci.engine = "decided"
    /\ uci' = [uci EXCEPT !.stdout = Append(uci.stdout, BestmoveLine),
                           !.engine = "idle"]
    /\ UNCHANGED <<board, turn, moves, taken_pieces, ret>>

BridgeStep == ReadLine \/ MatchLine
EngineStep == EngineRead \/ EngineInfo \/ EngineBestmove

UciNext ==
    \/ UciNew
    \/ SetOption
    \/ Position
    \/ NewGame
    \/ IsReady
    \/ BestMove
    \/ Drop
    \/ ReadLine
    \/ MatchLine
    \/ EngineRead
    \/ EngineInfo
    \/ EngineBestmove

\* the thread of the bridge and the engine process are both scheduled
UciSpec == UciInit /\ [][UciNext]_vars /\ WF_vars(BridgeStep) /\ WF_vars(EngineStep)

(***************************************************************************)
(* Vocabulary of the properties                                            *)
(***************************************************************************)
PieceAt(b, pos) == b[pos.row][pos.column].piece
Occupied(b, pos) == PieceAt(b, pos) # <<>>
SeqToSet(s) == {s[k] : k \in 1..Len(s)}
Opposite(c) == CHOOSE d \in Colours : d # c
LastMove == moves[Len(moves)]
Played == ret.op = "make_move" /\ ret.ok /\ moves # <<>>

\* the legal-destination set computed for `from`; no set is computed when the
\* generator fails
LegalDestinations(b, from) ==
    LET r == get_available_moves(b, from)
    IN  IF r.ok THEN SeqToSet(r.val) ELSE {}

(***************************************************************************)
(* C1: make_move(from, to) succeeds if and only if `from` holds a piece of *)
(* the side to move and `to` is in the legal-destination set computed for  *)
(* `from`; every other call returns an InvalidMove error.                  *)
(***************************************************************************)
C1_MakeMoveSucceedsIffLegal ==
    [](\A from \in InputPositions :
          LET owned == /\ Occupied(board, from)
                       /\ PieceAt(board, from)[1].colour = turn
              legal == LegalDestinations(board, from)
          IN  \A to \in InputPositions :
                  LET r == make_move(Engine, from, to)
                  IN  /\ r.ok <=> (owned /\ to \in legal)
                      /\ ~r.ok => r.kind = "InvalidMove")

\* a move was played, and then calls failed for each of the three reasons
C1_Witness ==
    /\ moves # <<>>
    /\ ret.op = "make_move" /\ ~ret.ok
    /\ \E from \in InputPositions, to \in InputPositions : make_move(Engine, from, to).ok
    /\ \E from \in InputPositions : ~Occupied(board, from)
    /\ \E from \in InputPositions :
          /\ Occupied(board, from)
          /\ PieceAt(board, from)[1].colour # turn
          /\ LegalDestinations(board, from) # {}
    /\ \E from \in InputPositions, to \in InputPositions :
          /\ Occupied(board, from)
          /\ PieceAt(board, from)[1].colour = turn
          /\ to \notin LegalDestinations(board, from)

(***************************************************************************)
(* C2: after a successful make_move, turn is the opposite of its value     *)
(* before the call.                                                        *)
(***************************************************************************)
C2_TurnFlipsOnSuccess ==
    [][(ret'.op = "make_move" /\ ret'.ok) => turn' = Opposite(turn)]_vars

\* White has moved, Black has moved, and it is White's turn again
C2_Witness == Played /\ Len(moves) = 2 /\ turn = "White"

(***************************************************************************)
(* C3: after a failed make_move the board, turn, the move history and the  *)
(* capture list are as before the call.                                    *)
(***************************************************************************)
C3_FailedMoveChangesNothing ==
    [][(ret'.op = "make_move" /\ ~ret'.ok) =>
          /\ board' = board
          /\ turn' = turn
          /\ moves' = moves
          /\ taken_pieces' = taken_pieces]_vars

\* a call failed because `to` was not a legal destination, after a capture
C3_Witness ==
    /\ ret.op = "make_move" /\ ~ret.ok /\ ret.msg = ""
    /\ moves # <<>> /\ taken_pieces # <<>>

(***************************************************************************)
(* C4: after a successful make_move(from, to) the cell at `to` holds       *)
(* exactly the piece that was at `from`, and the cell at `from` is empty.  *)
(***************************************************************************)
C4_PieceRelocated ==
    [][(ret'.op = "make_move" /\ ret'.ok) =>
          LET from == moves'[Len(moves')].from
              to == moves'[Len(moves')].to
          IN  /\ Occupied(board, from)
              /\ PieceAt(board', to) = PieceAt(board, from)
              /\ PieceAt(board', from) = <<>>]_vars

\* a move was applied: its source is empty and its destination is occupied
C4_Witness ==
    /\ Played
    /\ ~Occupied(board, LastMove.from)
    /\ Occupied(board, LastMove.to)
    /\ LastMove.from.column # LastMove.to.column

(***************************************************************************)
(* C5: a successful make_move(from, to) appends the piece that occupied    *)
(* `to` to the end of the capture list, and leaves the capture list        *)
(* unchanged when `to` was empty.                                          *)
(***************************************************************************)
C5_CaptureAccounting ==
    [][(ret'.op = "make_move" /\ ret'.ok) =>
          LET to == moves'[Len(moves')].to
          IN  taken_pieces' =
                 IF Occupied(board, to)
                 THEN Append(taken_pieces, PieceAt(board, to)[1])
                 ELSE taken_pieces]_vars

\* three moves were played: two took different pieces and one took nothing
C5_Witness ==
    /\ Played
    /\ Len(taken_pieces) = 2
    /\ taken_pieces[1] # taken_pieces[2]
    /\ Len(moves) = 3

(***************************************************************************)
(* C6: every position returned by get_available_moves for an occupied cell *)
(* is on the board and is empty or holds a piece of the side opposing the  *)
(* piece being moved.                                                      *)
(***************************************************************************)
C6_NoFriendlyDestination ==
    \A pos \in Positions :
        LET r == get_available_moves(board, pos)
        IN  (Occupied(board, pos) /\ r.ok) =>
              \A k \in 1..Len(r.val) :
                 /\ r.val[k] \in Positions
                 /\ \/ ~Occupied(board, r.val[k])
                    \/ PieceAt(board, r.val[k])[1].colour = Opposite(PieceAt(board, pos)[1].colour)

\* after a move, one piece has a friendly-occupied candidate that is filtered
\* out and an opposing-occupied destination that is returned
C6_Witness ==
    /\ Played
    /\ \E pos \in Positions :
          /\ Occupied(board, pos)
          /\ raw_moves(board, pos, PieceAt(board, pos)[1]).ok
          /\ \E m \in SeqToSet(raw_moves(board, pos, PieceAt(board, pos)[1]).val) :
                /\ Occupied(board, m)
                /\ PieceAt(board, m)[1].colour = PieceAt(board, pos)[1].colour
                /\ m \notin LegalDestinations(board, pos)
          /\ \E m \in LegalDestinations(board, pos) : Occupied(board, m)

(***************************************************************************)
(* C7: get_available_moves returns a list and never an error, on every     *)
(* position of every reachable board.                                      *)
(***************************************************************************)
C7_AvailableMovesNeverFails ==
    \A pos \in Positions : get_available_moves(board, pos).ok

(***************************************************************************)
(* C8: after a successful make_move(from, to) the piece at `to` has        *)
(* moved = true.                                                           *)
(***************************************************************************)
C8_MovedFlagSet ==
    Played => PieceAt(board, LastMove.to)[1].moved

(***************************************************************************)
(* C9: the initial game state is the standard chess starting position,     *)
(* White to move.                                                          *)
(***************************************************************************)
StandardOfficers == <<"Rook", "Knight", "Bishop", "Queen", "King", "Bishop", "Knight", "Rook">>

StandardPiece(r, c) ==
    CASE r = 0 -> <<[kind |-> StandardOfficers[c + 1], colour |-> "White"]>>
      [] r = 1 -> <<[kind |-> "Pawn", colour |-> "White"]>>
      [] r = 6 -> <<[kind |-> "Pawn", colour |-> "Black"]>>
      [] r = 7 -> <<[kind |-> StandardOfficers[c + 1], colour |-> "Black"]>>
      [] OTHER -> <<>>

KindAndSide(o) == IF o = <<>> THEN <<>> ELSE <<[kind |-> o[1].kind, colour |-> o[1].colour]>>

C9_StandardStart ==
    (ret.op = "none") =>
        /\ turn = "White"
        /\ \A r \in Rows, c \in Columns :
              KindAndSide(board[r][c].piece) = StandardPiece(r, c)

(***************************************************************************)
(* C10: for a Bishop, Rook or Queen, a square on one of its ray directions *)
(* is a kind-specific candidate if and only if every square strictly       *)
(* between the piece and that square is empty.                             *)
(***************************************************************************)
Diagonals == {<<1, 1>>, <<1, -1>>, <<-1, 1>>, <<-1, -1>>}
Orthogonals == {<<1, 0>>, <<-1, 0>>, <<0, 1>>, <<0, -1>>}

RayDirections(kind) ==
    CASE kind = "Bishop" -> Diagonals
      [] kind = "Rook" -> Orthogonals
      [] kind = "Queen" -> Diagonals \cup Orthogonals

OnBoard(r, c) == r \in Rows /\ c \in Columns

RayClear(b, pos, d, n) ==
    \A k \in 1..(n - 1) : ~Occupied(b, Pos(pos.row + k * d[1], pos.column + k * d[2]))

C10_RayCandidates ==
    \A pos \in Positions :
        (Occupied(board, pos) /\ PieceAt(board, pos)[1].kind \in {"Bishop", "Rook", "Queen"}) =>
            LET piece == PieceAt(board, pos)[1]
                raw == SeqToSet(raw_moves(board, pos, piece).val)
            IN  \A d \in RayDirections(piece.kind), n \in 1..7 :
                    OnBoard(pos.row + n * d[1], pos.column + n * d[2]) =>
                        (Pos(pos.row + n * d[1], pos.column + n * d[2]) \in raw
                            <=> RayClear(board, pos, d, n))

\* a ray passes over empty squares, reaches an occupied square that is a
\* candidate, and the square beyond it is on the board and not a candidate
BlockedRay(kind) ==
    \E pos \in Positions :
        /\ Occupied(board, pos)
        /\ PieceAt(board, pos)[1].kind = kind
        /\ \E d \in RayDirections(kind), n \in 2..6 :
              /\ OnBoard(pos.row + (n + 1) * d[1], pos.column + (n + 1) * d[2])
              /\ RayClear(board, pos, d, n)
              /\ Occupied(board, Pos(pos.row + n * d[1], pos.column + n * d[2]))
              /\ Pos(pos.row + n * d[1], pos.column + n * d[2])
                    \in SeqToSet(raw_moves(board, pos, PieceAt(board, pos)[1]).val)
              /\ Pos(pos.row + (n + 1) * d[1], pos.column + (n + 1) * d[2])
                    \notin SeqToSet(raw_moves(board, pos, PieceAt(board, pos)[1]).val)

C10_Witness ==
    Played /\ BlockedRay("Bishop") /\ BlockedRay("Rook") /\ BlockedRay("Queen")

(***************************************************************************)
(* C11: for a Knight at any position, the candidates before the occupancy  *)
(* filter are exactly the on-board squares at the 8 offsets (+-1, +-2),    *)
(* (+-2, +-1); from d4 they are exactly {b3, b5, c2, c6, e2, e6, f3, f5}.  *)
(***************************************************************************)
KnightSquares(pos) ==
    {p \in [row : ((pos.row - 2)..(pos.row + 2)) \cap Rows,
            column : ((pos.column - 2)..(pos.column + 2)) \cap Columns] :
        \/ (p.row - pos.row) \in {1, -1} /\ (p.column - pos.column) \in {2, -2}
        \/ (p.row - pos.row) \in {2, -2} /\ (p.column - pos.column) \in {1, -1}}

KnightCandidates(pos) ==
    SeqToSet(available_move_for_knight(board, pos, ChessPiece("Knight", turn, FALSE)).val)

C11_KnightCandidates ==
    [](/\ \A pos \in Positions :
             LET r == available_move_for_knight(board, pos, ChessPiece("Knight", turn, FALSE))
             IN  r.ok /\ SeqToSet(r.val) = KnightSquares(pos)
       /\ \A pos \in Positions :
             (Occupied(board, pos) /\ PieceAt(board, pos)[1].kind = "Knight") =>
                 /\ raw_moves(board, pos, PieceAt(board, pos)[1]).ok
                 /\ SeqToSet(raw_moves(board, pos, PieceAt(board, pos)[1]).val)
                        = KnightSquares(pos)
       /\ KnightCandidates(Pos(3, 3)) =
             {Pos(2, 1), Pos(4, 1), Pos(1, 2), Pos(5, 2), Pos(1, 4), Pos(5, 4), Pos(2, 5),
              Pos(4, 5)})

\* a knight has just moved from a square whose candidates were cut by the
\* edge of the board to a square with yet another number of candidates
C11_Witness ==
    /\ Played
    /\ PieceAt(board, LastMove.to)[1].kind = "Knight"
    /\ Cardinality(KnightCandidates(LastMove.from)) = 3
    /\ Cardinality(KnightCandidates(LastMove.to)) = 4
    /\ Cardinality(KnightCandidates(Pos(3, 3))) = 8

(***************************************************************************)
(* C12: for a Pawn, a diagonal-forward square (one rank in the direction   *)
(* of its side, one file left or right) is in its legal-destination set if *)
(* and only if it is on the board and occupied by a piece of the opposing  *)
(* side.                                                                   *)
(***************************************************************************)
IsPawnAt(b, pos) == Occupied(b, pos) /\ PieceAt(b, pos)[1].kind = "Pawn"

DiagonalRow(b, pos) == pos.row + direction(PieceAt(b, pos)[1].colour)

OpposingAt(b, pos, target) ==
    /\ Occupied(b, target)
    /\ PieceAt(b, target)[1].colour = Opposite(PieceAt(b, pos)[1].colour)

C12_PawnDiagonalCapture ==
    \A pos \in Positions :
        IsPawnAt(board, pos) =>
            \A i \in {-1, 1} :
                OnBoard(DiagonalRow(board, pos), pos.column + i) =>
                    (Pos(DiagonalRow(board, pos), pos.column + i) \in LegalDestinations(board, pos)
                        <=> OpposingAt(board, pos, Pos(DiagonalRow(board, pos), pos.column + i)))

\* where the pawn generator does not fail, the diagonal squares are
\* destinations exactly when an opposing piece stands on them
PawnDiagonalWhereGenerated ==
    \A pos \in Positions :
        (IsPawnAt(board, pos) /\ get_available_moves(board, pos).ok) =>
            \A i \in {-1, 1} :
                OnBoard(DiagonalRow(board, pos), pos.column + i) =>
                    (Pos(DiagonalRow(board, pos), pos.column + i) \in LegalDestinations(board, pos)
                        <=> OpposingAt(board, pos, Pos(DiagonalRow(board, pos), pos.column + i)))

(***************************************************************************)
(* C13: for a Pawn whose moved flag is false, the square two ranks forward *)
(* is a candidate whenever it is on the board, whether or not the square   *)
(* in between is occupied, in addition to the square one rank forward.     *)
(***************************************************************************)
Forward(b, pos, n) == pos.row + n * direction(PieceAt(b, pos)[1].colour)

C13_PawnDoubleStep ==
    \A pos \in Positions :
        (IsPawnAt(board, pos) /\ ~PieceAt(board, pos)[1].moved
            /\ OnBoard(Forward(board, pos, 2), pos.column)) =>
            LET raw == available_move_for_pawn(board, pos, PieceAt(board, pos)[1])
            IN  /\ raw.ok
                /\ Pos(Forward(board, pos, 2), pos.column) \in SeqToSet(raw.val)
                /\ Pos(Forward(board, pos, 1), pos.column) \in SeqToSet(raw.val)

\* a pawn has just advanced two squares over an occupied square, and a pawn
\* that has not moved stands behind an occupied square with the square
\* beyond it on the board
C13_Witness ==
    /\ Played
    /\ PieceAt(board, LastMove.to)[1].kind = "Pawn"
    /\ LastMove.to.column = LastMove.from.column
    /\ LastMove.to.row - LastMove.from.row \in {2, -2}
    /\ Occupied(board, Pos((LastMove.from.row + LastMove.to.row) \div 2, LastMove.from.column))
    /\ \E pos \in Positions :
          /\ IsPawnAt(board, pos)
          /\ ~PieceAt(board, pos)[1].moved
          /\ OnBoard(Forward(board, pos, 2), pos.column)
          /\ Occupied(board, Pos(Forward(board, pos, 1), pos.column))

(***************************************************************************)
(* C17: in every state reachable from the default board by make_move calls *)
(* the colour of the cell at (row, column) is determined by                *)
(* (row + column) mod 2 and is the colour the cell had when the board was  *)
(* constructed; no move changes the colour of a cell.                      *)
(***************************************************************************)
ColourOfSquare(r, c) == IF (r + c) % 2 = 0 THEN "White" ELSE "Black"

C17_CellColourFixed ==
    \A r \in Rows, c \in Columns :
        /\ board[r][c].colour = ColourOfSquare(r, c)
        /\ board[r][c].colour = ChessBoardDefault.board[r][c].colour

\* the last move took a piece from a cell of one colour to a cell of the
\* other colour, and an earlier move stayed on cells of one colour
C17_Witness ==
    /\ Played
    /\ board[LastMove.from.row][LastMove.from.column].colour
          # board[LastMove.to.row][LastMove.to.column].colour
    /\ \E k \in 1..(Len(moves) - 1) :
          ColourOfSquare(moves[k].from.row, moves[k].from.column)
             = ColourOfSquare(moves[k].to.row, moves[k].to.column)

(***************************************************************************)
(* Vocabulary of the solver properties                                     *)
(***************************************************************************)
Solved == ret.op = "solve_next_move"
SolvedMove == ret.val[1]
WithinBudget == ret.arg[1] <= TimeLimitSecs

OwnPieceAt(b, side, pos) == Occupied(b, pos) /\ PieceAt(b, pos)[1].colour = side

\* the legal moves of `side`: a piece of the side and one of its legal
\* destinations
LegalMoves(b, side) ==
    UNION {{[from |-> from, to |-> to] : to \in LegalDestinations(b, from)} :
              from \in {pos \in Positions : OwnPieceAt(b, side, pos)}}

\* the sum of the values of the pieces that stand on the squares of `own`
ValuesOn(b, own) ==
    LET CountOf(kind) == Cardinality({p \in own : PieceAt(b, p)[1].kind = kind})
    IN  CountOf("Pawn") + 3 * CountOf("Knight") + 3 * CountOf("Bishop")
            + 5 * CountOf("Rook") + 9 * CountOf("Queen") + 200 * CountOf("King")

PieceValues(b, side) == ValuesOn(b, {p \in Positions : OwnPieceAt(b, side, p)})

\* the score of a move of the side to move: the piece values of the mover
\* minus those of the opponent on the board after the move
ScoreAfter(mv) ==
    LET after == make_move(Engine, mv.from, mv.to).game.chess_board.board
    IN  PieceValues(after, turn) - PieceValues(after, Opposite(turn))

StartingPosition == board = ChessBoardDefault.board /\ turn = ChessBoardDefault.turn

ReturnedMoveLegal ==
    /\ OwnPieceAt(board, turn, SolvedMove.from)
    /\ SolvedMove.to \in LegalDestinations(board, SolvedMove.from)
    /\ make_move(Engine, SolvedMove.from, SolvedMove.to).ok

C15_MinimumScore ==
    (Solved /\ ret.ok) =>
        /\ SolvedMove \in LegalMoves(board, turn)
        /\ LET returned == ScoreAfter(SolvedMove)
           IN  \A mv \in LegalMoves(board, turn) : ScoreAfter(mv) >= returned

\* the solver has returned a move although a legal move of a strictly higher
\* score exists
C15_Witness ==
    /\ Solved /\ ret.ok
    /\ \E mv \in LegalMoves(board, turn) : ScoreAfter(mv) > ScoreAfter(SolvedMove)

C18_PositionRoundTrip ==
    /\ (ret.op = "to_string") =>
           PositionFromStr(ret.val[1]) = Ok(ret.arg[1])
    /\ (ret.op = "from_str" /\ ret.ok) =>
           PositionDisplay(ret.val[1]) = ret.arg[1]

(***************************************************************************)
(* C19: after `go movetime` is sent, the read loop of best_move stops at   *)
(* the bestmove line of the engine: once that line has been read, the loop *)
(* does not go on reading and waiting for readyok or uciok.                *)
(***************************************************************************)
C19_ReadLoopStopsAtBestmove ==
    ~(/\ uci.op = "best_move"
      /\ uci.pc = "read_line"
      /\ \E k \in 1..Len(uci.output) : IsSome(bestmove_token(uci.output[k])))

(***************************************************************************)
(* C20: when the bridge is released, quit is sent and the release          *)
(* completes: once the engine has exited and its output is at end of       *)
(* stream, the release eventually finishes.                                *)
(***************************************************************************)
C20_ReleaseCompletes ==
    (uci.op = "drop" /\ uci.engine = "exited" /\ uci.stdout = <<>>) ~> (uci.pc = "dropped")

(***************************************************************************)
(* C22: a successful make_move(from, to) changes the piece occupant of     *)
(* only the two cells `from` and `to`: every other cell of the board holds *)
(* the same occupant after the call as before it.                          *)
(***************************************************************************)
C22_OtherCellsKept ==
    [][(ret'.op = "make_move" /\ ret'.ok) =>
          LET from == moves'[Len(moves')].from
              to == moves'[Len(moves')].to
          IN  \A pos \in Positions \ {from, to} :
                  PieceAt(board', pos) = PieceAt(board, pos)]_vars

\* a knight has jumped to another file: the cells beside its path, one of
\* them occupied, are as they were on the initial board
C22_Witness ==
    /\ Played
    /\ Len(moves) = 1
    /\ LastMove.from.column # LastMove.to.column
    /\ LastMove.from.row # LastMove.to.row
    /\ Occupied(board, Pos(LastMove.from.row, LastMove.to.column))
    /\ \A pos \in Positions \ {LastMove.from, LastMove.to} :
           PieceAt(board, pos) = PieceAt(ChessBoardDefault.board, pos)

\* the number of pieces of one kind and side on a board, and in a list
OnBoardCount(b, kind, colour) ==
    Cardinality({pos \in Positions :
                    /\ Occupied(b, pos)
                    /\ PieceAt(b, pos)[1].kind = kind
                    /\ PieceAt(b, pos)[1].colour = colour})
TakenCount(tp, kind, colour) ==
    Cardinality({k \in 1..Len(tp) : tp[k].kind = kind /\ tp[k].colour = colour})
PieceCount(b) == Cardinality({pos \in Positions : Occupied(b, pos)})

(***************************************************************************)
(* C24: in every state reached from the initial game by make_move calls    *)
(* the number of pieces on the board plus the length of the capture list   *)
(* is the number of pieces on the initial board, and so it is for the     *)
(* pieces of each kind and side: none is duplicated, none is lost without  *)
(* being recorded as captured.                                             *)
(***************************************************************************)
C24_PieceConservation ==
    [](/\ PieceCount(board) + Len(taken_pieces) = PieceCount(ChessBoardDefault.board)
       /\ \A kind \in Kinds, colour \in Colours :
              OnBoardCount(board, kind, colour) + TakenCount(taken_pieces, kind, colour)
                  = OnBoardCount(ChessBoardDefault.board, kind, colour))

\* two pieces have been taken: the board holds two pieces less than at the start
C24_Witness ==
    /\ Played
    /\ Len(taken_pieces) = 2
    /\ PieceCount(board) = PieceCount(ChessBoardDefault.board) - 2

(***************************************************************************)
(* C25: each successful make_move(from, to) appends exactly the one entry  *)
(* Move{from, to} at the end of the move history, the squares being those  *)
(* the piece left and reached, and a failed call appends none; so in every *)
(* state the side to move is White exactly when the history has even       *)
(* length.                                                                 *)
(***************************************************************************)
C25_HistoryAndTurnInStep ==
    /\ [][/\ (ret'.op = "make_move" /\ ret'.ok) =>
                 /\ Len(moves') = Len(moves) + 1
                 /\ SubSeq(moves', 1, Len(moves)) = moves
                 /\ Occupied(board, moves'[Len(moves')].from)
                 /\ PieceAt(board, moves'[Len(moves')].from)[1].colour = turn
                 /\ PieceAt(board', moves'[Len(moves')].from) = <<>>
                 /\ PieceAt(board', moves'[Len(moves')].to)
                        = PieceAt(board, moves'[Len(moves')].from)
          /\ (ret'.op = "make_move" /\ ~ret'.ok) => moves' = moves]_vars
    /\ [](turn = "White" <=> Len(moves) % 2 = 0)

\* after a failed call that followed a move it is Black's turn with one entry
\* in the history, and after two moves it would be White's again
C25_Witness ==
    /\ ret.op = "make_move"
    /\ ~ret.ok
    /\ Len(moves) = 1
    /\ turn = "Black"

(***************************************************************************)
(* C23: the 64-slot array the board hash is computed over is a function of *)
(* the (kind, side) of each cell's occupant, empty being 0: a board that   *)
(* differs from the hashed board at some cell in the occupant's kind or    *)
(* side has a different array, and a board with the same occupants         *)
(* everywhere has the same array.                                          *)
(***************************************************************************)
C23_EncodingOfKindAndSide ==
    (ret.op = "hash") =>
        ((\E pos \in Positions :
              KindAndSide(PieceAt(Unwrap(ret.arg), pos)) # KindAndSide(PieceAt(board, pos)))
          <=> Unwrap(ret.val) # hash_arr(board))

\* the spellings of the move from s to d: the two squares with blanks between
\* and around them, the two squares joined, and the shorthand of three
\* characters
IsSpacedForm(text, s, d) ==
    /\ Len(trim(text)) >= 5
    /\ SubSeq(trim(text), 1, 2) = PositionDisplay(s)
    /\ SubSeq(trim(text), Len(trim(text)) - 1, Len(trim(text))) = PositionDisplay(d)
    /\ \A k \in 3..(Len(trim(text)) - 2) : trim(text)[k] \in WhiteSpace
IsJoinedForm(text, s, d) == text = PositionDisplay(s) \o PositionDisplay(d)
IsShorthand(text, s, d) ==
    \/ d.column = s.column /\ text = PositionDisplay(s) \o RowDisplay(d.row)
    \/ d.row = s.row /\ text = PositionDisplay(s) \o ColumnDisplay(d.column)
IsSpelling(text, s, d) ==
    IsSpacedForm(text, s, d) \/ IsJoinedForm(text, s, d) \/ IsShorthand(text, s, d)

(***************************************************************************)
(* C21: parse_input_to_move maps every spelling of a move to that move:    *)
(* for a source s and a destination d the form "s d" with any blanks       *)
(* around and between, the form "sd" and the shorthand of three characters *)
(* all yield Move{from: s, to: d}.                                         *)
(***************************************************************************)
C21_SpellingsYieldSameMove ==
    (ret.op = "parse_input_to_move") =>
        \A s \in InputSquares, d \in InputSquares :
            IsSpelling(Unwrap(ret.arg), s, d) =>
                ret.ok /\ ret.val = Some(Move(s, d))

====
